---- MODULE Spec2Model ----
(***************************************************************************)
(* MindSpace notes application (src/App.tsx): the notes list, the          *)
(* selection, the per-note undo/redo history map and the single-slot       *)
(* typing timer that delimits edit sessions.  Spec is the notes core of    *)
(* src/App.tsx; SpecLive is Spec with the timer callback run in the end;   *)
(* SpecKeys adds the keydown listener, SpecStore page reloads, SpecUi the  *)
(* sort, search, theme, export and todo handlers; SpecTodos is the todos   *)
(* view alone.  SpecAI is src/App_modified.tsx, the variant with the AI    *)
(* actions and without the todos tab.                                      *)
(*                                                                         *)
(* One action per event handler.  React re-renders after every discrete    *)
(* event, so each handler reads the state left by the previous one; the    *)
(* effect on [selectedNoteId] runs in the commit of the handler that       *)
(* changed the selection and is part of that handler's action.             *)
(*                                                                         *)
(* Strings are sequences of characters.  Date.now() is the variable clock, *)
(* which advances at every handler that reads it.  localStorage is the     *)
(* variable storage; the save effects run in the commit of the handler     *)
(* that changed what they depend on and are part of that handler's action. *)
(***************************************************************************)
EXTENDS Integers, Sequences, FiniteSets, TLC

\* ------------------------------------------------------------------ bounds
MaxIds   == 2      \* notes ever created (generateId never repeats an id)
MaxClock == 4      \* handlers that read Date.now(), plus AI dispatches and
                   \* changes of the view (sort, search, theme)
MaxTodos == 2      \* todos ever created

\* --------------------------------------------------------------- constants
NULL == 0                      \* null: no selection, no timer handle
ExcerptLen == 100              \* value.substring(0, 100)

WelcomeTitle   == <<"w">>      \* the welcome note's literals, abbreviated
WelcomeContent == <<"w", "c">>
WelcomeExcerpt == <<"e">>
NewTitle       == <<"n">>      \* '新笔记'
NewContent     == <<>>         \* ''
NewExcerpt     == <<"x">>      \* '无额外内容'

Keys   == {"title", "content"}         \* handleTextChange's key
Values == {<<"a">>, <<"b">>}           \* handleTextChange's value
ValuesAI == {<<"a">>}                  \* the same, in SpecAI
Titles == {<<"a">>}                    \* the same for the title, in Spec

ViewFilters == {"all", "favorites", "todos"}
SortConfigs == {[key |-> "updatedAt", direction |-> "desc"],
                [key |-> "createdAt", direction |-> "desc"],
                [key |-> "title",     direction |-> "asc"]}
Queries     == {<<>>, <<"A">>}                           \* the search box
TodoInputs  == {<<>>, <<" ">>, <<"t">>, <<" ", "t">>}    \* the todo input

\* keydown events: code is the physical key, key the character it produced.
\* With Shift held the character is the capital letter; some platforms
\* report the small letter while Meta is held, so both occur with Shift.
KeyEvents ==
  {e \in [code : {"KeyZ", "KeyY"}, key : {"z", "Z", "y", "Y"},
          metaKey : BOOLEAN, ctrlKey : BOOLEAN, shiftKey : BOOLEAN] :
     /\ e.code = "KeyZ" => e.key \in {"z", "Z"}
     /\ e.code = "KeyY" => e.key \in {"y", "Y"}
     /\ e.key \in {"Z", "Y"} => e.shiftKey}

\* AIActionType; CUSTOM with the prompt's actionType
AiActions == {"GENERATE_TITLE", "SUMMARIZE", "CONTINUE_WRITING", "FIX_GRAMMAR",
              "CUSTOM_REPLACE", "CUSTOM_APPEND"}
AiText     == <<"r">>          \* response.text.trim(), abbreviated
SummarySep == <<"s">>          \* '\n\n--- 摘要 ---\n'
SpaceSep   == <<" ">>          \* ' '
CustomSep  == <<"n">>          \* '\n\n'

VARIABLES
  notes,             \* useState<Note[]>: sequence of note records
  selectedNoteId,    \* useState<string | null>
  history,           \* useState<Record<string, HistoryState>>
  typingTimeoutRef,  \* useRef: handle of the pending timer, or NULL
  timers,            \* callbacks scheduled with setTimeout and still live
  nextId,            \* the next id generateId() returns
  clock,             \* Date.now()
  aiCall,            \* the performAIAction call in flight (aiState.isLoading)
  aiCount,           \* AI actions dispatched so far
  todos,             \* useState<Todo[]>
  newTodoText,       \* useState('')
  nextTodoId,        \* the next id generateId() returns for a todo
  viewFilter,        \* useState<'all' | 'favorites' | 'todos'>
  searchQuery,       \* useState('')
  sortConfig,        \* useState<SortConfig>
  theme,             \* useState<'light' | 'dark'>
  uiCount,           \* changes of the view made so far
  storage,           \* localStorage: the notes, todos and theme items
  lastOp,            \* observer: the handler that ran last
  streak,            \* observer: the current run of edits to the focused note
  mark,              \* observer: the note before an undo/redo pair
  switchedFrom,      \* observer: the note whose session a focus change cut
  scen               \* observer: progress through the reference scenario

prog == <<notes, selectedNoteId, history, typingTimeoutRef, timers, nextId,
          clock>>
ui   == <<todos, newTodoText, nextTodoId, viewFilter, searchQuery, sortConfig,
          theme, uiCount>>
vars == <<notes, selectedNoteId, history, typingTimeoutRef, timers, nextId,
          clock, aiCall, aiCount, todos, newTodoText, nextTodoId, viewFilter,
          searchQuery, sortConfig, theme, uiCount, storage, lastOp, streak,
          mark, switchedFrom, scen>>

\* the run may still take a step that reads Date.now() or dispatches a call
Budget == clock + aiCount + uiCount < MaxClock

\* no AI action is dispatched or completed
AiIdle == UNCHANGED <<aiCall, aiCount>>

\* no todo handler runs and the view is not changed
UiIdle == UNCHANGED ui

\* the effects on [notes], [todos] and [theme], run in the handler's commit:
\* if (notes.length > 0) setItem(STORAGE_KEY, ...); setItem(TODOS_KEY, ...);
\* setItem(THEME_KEY, theme).  An effect whose dependency did not change
\* does not run; it would write the value the item already has.
SaveEffects ==
  storage' = [notes |-> IF Len(notes') > 0 THEN notes' ELSE storage.notes,
              todos |-> todos',
              theme |-> theme']

\* ----------------------------------------------------------------- helpers
Min(a, b) == IF a < b THEN a ELSE b

\* String.prototype.substring(0, n)
Substring0(s, n) == SubSeq(s, 1, Min(n, Len(s)))

\* Array.prototype.slice(0, -1) and slice(1)
SliceInit(s) == SubSeq(s, 1, Len(s) - 1)
SliceTail(s) == SubSeq(s, 2, Len(s))

\* String.prototype.trim(): the string without its leading and trailing
\* spaces
RECURSIVE TrimStart(_)
TrimStart(s) ==
  IF s # <<>> /\ Head(s) = " " THEN TrimStart(Tail(s)) ELSE s

RECURSIVE TrimEnd(_)
TrimEnd(s) ==
  IF s # <<>> /\ s[Len(s)] = " " THEN TrimEnd(SliceInit(s)) ELSE s

Trim(s) == TrimEnd(TrimStart(s))

\* String.prototype.includes(q)
Includes(s, q) ==
  \E i \in 1..(Len(s) + 1) :
    i + Len(q) - 1 <= Len(s) /\ SubSeq(s, i, i + Len(q) - 1) = q

NoteIds(ns) == {ns[i].id : i \in DOMAIN ns}

\* notes.find(n => n.id === id); used only where the note exists
FindNote(ns, id) == ns[CHOOSE i \in DOMAIN ns : ns[i].id = id]

\* String.prototype.toLowerCase, on the letters the inputs are made of
LowerChar(c) ==
  CASE c = "A" -> "a"
    [] c = "B" -> "b"
    [] c = "T" -> "t"
    [] OTHER   -> c

ToLowerCase(s) == [i \in DOMAIN s |-> LowerChar(s[i])]

\* the note is in filteredNotes and the notes list is rendered
Listed(n) ==
  /\ viewFilter # "todos"
  /\ viewFilter = "favorites" => n.isFavorite
  /\ Trim(searchQuery) # <<>> =>
       LET q == ToLowerCase(searchQuery)
       IN \/ Includes(ToLowerCase(n.title), q)
          \/ Includes(ToLowerCase(n.content), q)

\* the todo is in filteredTodos and the todos list is rendered
ListedTodo(t) ==
  /\ viewFilter = "todos"
  /\ Trim(searchQuery) # <<>> =>
       Includes(ToLowerCase(t.text), ToLowerCase(searchQuery))

TodoIds(ts) == {ts[i].id : i \in DOMAIN ts}

FindTodo(ts, id) == ts[CHOOSE i \in DOMAIN ts : ts[i].id = id]

\* selectedNote is non-null
HasSelectedNote == selectedNoteId \in NoteIds(notes)
selectedNote == FindNote(notes, selectedNoteId)

\* prev.filter(n => n.id !== id)
RECURSIVE FilterOut(_, _)
FilterOut(ns, id) ==
  IF ns = <<>> THEN <<>>
  ELSE IF Head(ns).id = id THEN FilterOut(Tail(ns), id)
       ELSE <<Head(ns)>> \o FilterOut(Tail(ns), id)

\* NoteSnapshot of a note
Snapshot(n) == [title |-> n.title, content |-> n.content]

EmptyHistory == [past |-> <<>>, future |-> <<>>]

\* prev[id] || { past: [], future: [] }
HistoryOf(h, id) == IF id \in DOMAIN h THEN h[id] ELSE EmptyHistory

\* the stacks of a note in the current history map
PastOf(id)   == HistoryOf(history, id).past
FutureOf(id) == HistoryOf(history, id).future

\* { ...prev, [id]: rec }
SetRecord(h, id, rec) ==
  [k \in DOMAIN h \cup {id} |-> IF k = id THEN rec ELSE h[k]]

\* a deletion that resets the whole history map
RemoveRecordAll(h, id) == <<>>

\* handleDeleteNote without the setHistory call
RemoveRecordKeeps(h, id) == h

\* delete newHistory[id]
RemoveRecord(h, id) == [k \in DOMAIN h \ {id} |-> h[k]]

\* { ...n, ...updates, updatedAt: Date.now() } for the note with this id
updateNoteState(ns, id, updates, now) ==
  [i \in DOMAIN ns |->
     IF ns[i].id = id
       THEN [f \in DOMAIN ns[i] |->
               IF f = "updatedAt" THEN now
               ELSE IF f \in DOMAIN updates THEN updates[f]
               ELSE ns[i][f]]
       ELSE ns[i]]

\* a is an initial segment of b
IsPrefix(a, b) == Len(a) <= Len(b) /\ SubSeq(b, 1, Len(a)) = a

\* saveToHistory with a depth limit of two: the oldest entry is dropped
saveToHistoryCapped(h, note) ==
  LET past == Append(HistoryOf(h, note.id).past, Snapshot(note))
  IN SetRecord(h, note.id,
               [past   |-> IF Len(past) > 2 THEN Tail(past) ELSE past,
                future |-> <<>>])

\* saveToHistory without "future: []": the redo stack survives the push
saveToHistoryKeepsFuture(h, note) ==
  SetRecord(h, note.id,
            [past   |-> Append(HistoryOf(h, note.id).past, Snapshot(note)),
             future |-> HistoryOf(h, note.id).future])

\* past: [...noteHistory.past, snapshot], future: []
saveToHistory(h, note) ==
  SetRecord(h, note.id,
            [past   |-> Append(HistoryOf(h, note.id).past, Snapshot(note)),
             future |-> <<>>])

\* canUndo that only asks whether the selected note has a record
canUndoHasRecord == selectedNoteId # NULL /\ selectedNoteId \in DOMAIN history

canUndo == IF selectedNoteId # NULL
             THEN Len(HistoryOf(history, selectedNoteId).past) > 0
             ELSE FALSE
canRedo == IF selectedNoteId # NULL
             THEN Len(HistoryOf(history, selectedNoteId).future) > 0
             ELSE FALSE

\* ------------------------------------------------------------------ timers
\* setTimeout returns a handle that no live timer has
FreshHandle(ts) ==
  CHOOSE h \in 1..(Cardinality(ts) + 1) :
    /\ \A t \in ts : t.handle # h
    /\ \A g \in 1..(h - 1) : \E t \in ts : t.handle = g

\* a clearTimeout that cancels nothing
clearTimeoutNoop(ts, h) == ts

clearTimeout(ts, h) == {t \in ts : t.handle # h}

\* a snapshot at every keystroke
IsSessionStartAlways(ref) == TRUE

\* if (!typingTimeoutRef.current): the edit starts a typing session
IsSessionStart(ref) == ref = NULL

\* a callback that leaves the handle in place
TimerCallbackKeeps(ref) == ref

\* the timer callback: typingTimeoutRef.current = null
TimerCallback(ref) == NULL

\* no effect on [selectedNoteId]
ResetTypingTimerNever(newSel) == UNCHANGED <<timers, typingTimeoutRef>>

\* the effect nulls the handle but leaves the callback scheduled
ResetTypingTimerKeepsCallback(newSel) ==
  IF newSel # selectedNoteId /\ typingTimeoutRef # NULL
    THEN /\ timers' = timers
         /\ typingTimeoutRef' = NULL
    ELSE UNCHANGED <<timers, typingTimeoutRef>>

\* the effect on [selectedNoteId]: runs when the selection has changed
ResetTypingTimer(newSel) ==
  IF newSel # selectedNoteId /\ typingTimeoutRef # NULL
    THEN /\ timers' = clearTimeout(timers, typingTimeoutRef)
         /\ typingTimeoutRef' = NULL
    ELSE UNCHANGED <<timers, typingTimeoutRef>>

\* ---------------------------------------------------------------- observers
Pending == typingTimeoutRef # NULL

\* The handler that ran last, the note it was called on, whether the typing
\* timer was pending and the sizes of that note's stacks when it was called,
\* whether it is the first edit since a focus change cut a session, and,
\* for an undo, the number of edits (up to 2) of the run it follows.
Op(name, id) ==
  [op       |-> name,
   note     |-> id,
   pending  |-> Pending,
   p        |-> Len(HistoryOf(history, id).past),
   f        |-> Len(HistoryOf(history, id).future),
   switched |-> name = "edit" /\ switchedFrom # NULL,
   run      |-> IF name = "undo" /\ streak # <<>> THEN streak[1].n ELSE 0]

Target == IF HasSelectedNote THEN selectedNoteId ELSE NULL

\* A streak is a run of edits to the focused note that began when no timer
\* was pending and is interrupted only by the timer firing.  pre lists the
\* title/content the note had just before the first edit and just before
\* each edit that followed a firing of the timer; base is |past| before
\* the first edit; n counts the edits (up to 2).
StreakOnEdit(note) ==
  IF streak = <<>>
    THEN IF Pending THEN <<>>
         ELSE <<[note |-> note.id,
                 base |-> Len(HistoryOf(history, note.id).past),
                 pre  |-> <<Snapshot(note)>>,
                 n    |-> 1,
                 gap  |-> FALSE]>>
    ELSE <<[streak[1] EXCEPT
              !.pre = IF streak[1].gap THEN Append(@, Snapshot(note)) ELSE @,
              !.n   = Min(@ + 1, 2),
              !.gap = FALSE]>>

StreakOnFire ==
  IF streak = <<>> THEN <<>> ELSE <<[streak[1] EXCEPT !.gap = TRUE]>>

\* The selected note's title, content and stacks just before an undo (a
\* redo); stage 2 once the opposite operation has run right after it.
MarkOn(kind) ==
  IF mark # <<>> /\ mark[1].stage = 1 /\ mark[1].kind # kind
    THEN <<[mark[1] EXCEPT !.stage = 2]>>
    ELSE <<[stage   |-> 1,
            kind    |-> kind,
            note    |-> selectedNoteId,
            title   |-> selectedNote.title,
            content |-> selectedNote.content,
            past    |-> history[selectedNoteId].past,
            future  |-> history[selectedNoteId].future]>>

\* The reference scenario on a note {t, c} with empty history: stage 1 after
\* the content edit to c1, stage 2 after the content edit to c2 made before
\* the timer fired, stage 3 after the undo, stage 4 after the redo.
ScenOnEdit(key, value) ==
  IF HasSelectedNote /\ key = "content"
    THEN IF HistoryOf(history, selectedNoteId) = EmptyHistory
           THEN <<[stage |-> 1, note |-> selectedNoteId,
                   t |-> selectedNote.title, c |-> selectedNote.content,
                   c1 |-> value, c2 |-> value]>>
           ELSE IF scen # <<>> /\ scen[1].stage = 1
                  THEN <<[scen[1] EXCEPT !.stage = 2, !.c2 = value]>>
                  ELSE <<>>
    ELSE <<>>

ScenOnFire ==
  IF scen # <<>> /\ scen[1].stage >= 2 THEN scen ELSE <<>>

ScenOnUndo ==
  IF scen # <<>> /\ scen[1].stage = 2
    THEN <<[scen[1] EXCEPT !.stage = 3]>> ELSE <<>>

ScenOnRedo ==
  IF scen # <<>> /\ scen[1].stage = 3
    THEN <<[scen[1] EXCEPT !.stage = 4]>> ELSE <<>>

\* A focus change to note id while a note's typing timer was pending
SwitchOn(id) ==
  IF id # selectedNoteId
    THEN IF Pending /\ id # NULL /\ HasSelectedNote
           THEN selectedNoteId ELSE NULL
    ELSE switchedFrom

\* -------------------------------------------------------------------- Init
\* First mount with empty localStorage on a light colour scheme: the
\* welcome note, selected, and what the save effects have stored.
Init ==
  /\ notes = <<[id |-> 1, title |-> WelcomeTitle, content |-> WelcomeContent,
                excerpt |-> WelcomeExcerpt, updatedAt |-> 0, createdAt |-> 0,
                isFavorite |-> FALSE]>>
  /\ selectedNoteId = 1
  /\ history = <<>>
  /\ typingTimeoutRef = NULL
  /\ timers = {}
  /\ nextId = 2
  /\ clock = 0
  /\ aiCall = <<>>
  /\ aiCount = 0
  /\ todos = <<>>
  /\ newTodoText = <<>>
  /\ nextTodoId = 1
  /\ viewFilter = "all"
  /\ searchQuery = <<>>
  /\ sortConfig = [key |-> "updatedAt", direction |-> "desc"]
  /\ theme = "light"
  /\ uiCount = 0
  /\ storage = [notes |-> notes, todos |-> <<>>, theme |-> "light"]
  /\ scen = <<>>
  /\ lastOp = [op |-> "init", note |-> NULL, pending |-> FALSE, p |-> 0,
               f |-> 0, switched |-> FALSE, run |-> 0]
  /\ streak = <<>>
  /\ mark = <<>>
  /\ switchedFrom = NULL

\* ----------------------------------------------------------------- actions
\* a typing session kept per field: the first edit of a field pushes a
\* snapshot although the timer of the other field's edit is pending
handleTextChangePerField(key, value) ==
  /\ lastOp' = Op("edit", Target)
  /\ scen' = ScenOnEdit(key, value)
  /\ AiIdle
  /\ mark' = <<>>
  /\ IF ~HasSelectedNote
       THEN UNCHANGED <<prog, streak, switchedFrom>>
       ELSE LET note    == selectedNote
                cleared == IF typingTimeoutRef # NULL
                             THEN clearTimeout(timers, typingTimeoutRef)
                             ELSE timers
                handle  == FreshHandle(cleared)
                updates == IF key = "content"
                             THEN [content |-> value,
                                   excerpt |-> Substring0(value, ExcerptLen)]
                             ELSE [title |-> value, excerpt |-> note.excerpt]
            IN /\ Budget
               /\ history' = IF \/ IsSessionStart(typingTimeoutRef)
                                  \/ /\ streak # <<>>
                                     /\ streak[1].pre[Len(streak[1].pre)][key]
                                          = note[key]
                               THEN saveToHistory(history, note)
                               ELSE history
               /\ timers' = cleared \cup {[handle |-> handle, note |-> note.id]}
               /\ typingTimeoutRef' = handle
               /\ clock' = clock + 1
               /\ notes' = updateNoteState(notes, note.id, updates, clock + 1)
               /\ streak' = StreakOnEdit(note)
               /\ switchedFrom' = NULL
               /\ UNCHANGED <<selectedNoteId, nextId>>
  /\ UiIdle
  /\ SaveEffects

\* handleTextChange(key, value), with the effects of its commit
handleTextChange(key, value) ==
  /\ lastOp' = Op("edit", Target)
  /\ scen' = ScenOnEdit(key, value)
  /\ AiIdle
  /\ mark' = <<>>
  /\ IF ~HasSelectedNote
       THEN UNCHANGED <<prog, streak, switchedFrom>>
       ELSE LET note    == selectedNote
                cleared == IF typingTimeoutRef # NULL
                             THEN clearTimeout(timers, typingTimeoutRef)
                             ELSE timers
                handle  == FreshHandle(cleared)
                updates == IF key = "content"
                             THEN [content |-> value,
                                   excerpt |-> Substring0(value, ExcerptLen)]
                             ELSE [title |-> value, excerpt |-> note.excerpt]
            IN /\ Budget
               /\ history' = IF IsSessionStart(typingTimeoutRef)
                               THEN saveToHistory(history, note)
                               ELSE history
               /\ timers' = cleared \cup {[handle |-> handle, note |-> note.id]}
               /\ typingTimeoutRef' = handle
               /\ clock' = clock + 1
               /\ notes' = updateNoteState(notes, note.id, updates, clock + 1)
               /\ streak' = StreakOnEdit(note)
               /\ switchedFrom' = NULL
               /\ UNCHANGED <<selectedNoteId, nextId>>
  /\ UiIdle
  /\ SaveEffects

\* a callback that also saves a snapshot of the note when the session ends
TimerFiresSaves ==
  \E t \in timers :
    /\ timers' = timers \ {t}
    /\ typingTimeoutRef' = TimerCallback(typingTimeoutRef)
    /\ history' = IF t.note \in NoteIds(notes)
                    THEN saveToHistory(history, FindNote(notes, t.note))
                    ELSE history
    /\ lastOp' = Op("fire", t.note)
    /\ scen' = ScenOnFire
    /\ AiIdle
    /\ streak' = StreakOnFire
    /\ mark' = <<>>
    /\ UNCHANGED <<notes, selectedNoteId, nextId, clock, switchedFrom>>
    /\ UiIdle
    /\ SaveEffects

\* the callback scheduled by handleTextChange runs
TimerFires ==
  \E t \in timers :
    /\ timers' = timers \ {t}
    /\ typingTimeoutRef' = TimerCallback(typingTimeoutRef)
    /\ lastOp' = Op("fire", t.note)
    /\ scen' = ScenOnFire
    /\ AiIdle
    /\ streak' = StreakOnFire
    /\ mark' = <<>>
    /\ UNCHANGED <<notes, selectedNoteId, history, nextId, clock, switchedFrom>>
    /\ UiIdle
    /\ SaveEffects

\* if (!selectedNote) return; if (!noteHistory || past.length === 0) return;
UndoApplies(ns, h, sel) ==
  /\ sel \in NoteIds(ns)
  /\ sel \in DOMAIN h
  /\ Len(h[sel].past) # 0

\* handleUndo that does not keep the state it leaves: future is not extended
UndoResultForgetsCurrent(ns, h, sel, now) ==
  LET noteHistory == h[sel]
      previous    == noteHistory.past[Len(noteHistory.past)]
  IN [history |-> SetRecord(h, sel,
                    [past   |-> SliceInit(noteHistory.past),
                     future |-> noteHistory.future]),
      notes   |-> updateNoteState(ns, sel,
                    [title |-> previous.title, content |-> previous.content],
                    now)]

\* handleUndo with the current snapshot put behind future instead of in front
UndoResultAppends(ns, h, sel, now) ==
  LET note        == FindNote(ns, sel)
      noteHistory == h[sel]
      previous    == noteHistory.past[Len(noteHistory.past)]
  IN [history |-> SetRecord(h, sel,
                    [past   |-> SliceInit(noteHistory.past),
                     future |-> noteHistory.future \o <<Snapshot(note)>>]),
      notes   |-> updateNoteState(ns, sel,
                    [title |-> previous.title, content |-> previous.content],
                    now)]

\* handleUndo that restores the last entry of past without removing it
UndoResultKeepsPast(ns, h, sel, now) ==
  LET note        == FindNote(ns, sel)
      noteHistory == h[sel]
      previous    == noteHistory.past[Len(noteHistory.past)]
  IN [history |-> SetRecord(h, sel,
                    [past   |-> noteHistory.past,
                     future |-> <<Snapshot(note)>> \o noteHistory.future]),
      notes   |-> updateNoteState(ns, sel,
                    [title |-> previous.title, content |-> previous.content],
                    now)]

\* the history map and the notes list handleUndo sets
UndoResult(ns, h, sel, now) ==
  LET note            == FindNote(ns, sel)
      noteHistory     == h[sel]
      previous        == noteHistory.past[Len(noteHistory.past)]
      newPast         == SliceInit(noteHistory.past)
      currentSnapshot == Snapshot(note)
  IN [history |-> SetRecord(h, sel,
                    [past   |-> newPast,
                     future |-> <<currentSnapshot>> \o noteHistory.future]),
      notes   |-> updateNoteState(ns, sel,
                    [title |-> previous.title, content |-> previous.content],
                    now)]

\* if (!selectedNote) return; if (!noteHistory || future.length === 0) return;
RedoApplies(ns, h, sel) ==
  /\ sel \in NoteIds(ns)
  /\ sel \in DOMAIN h
  /\ Len(h[sel].future) # 0

\* handleRedo with the current snapshot put in front of past instead of behind
RedoResultPrepends(ns, h, sel, now) ==
  LET note        == FindNote(ns, sel)
      noteHistory == h[sel]
      next        == noteHistory.future[1]
  IN [history |-> SetRecord(h, sel,
                    [past   |-> <<Snapshot(note)>> \o noteHistory.past,
                     future |-> SliceTail(noteHistory.future)]),
      notes   |-> updateNoteState(ns, sel,
                    [title |-> next.title, content |-> next.content],
                    now)]

\* handleRedo that saves the restored entry, not the current state, to past
RedoResultSavesNext(ns, h, sel, now) ==
  LET noteHistory == h[sel]
      next        == noteHistory.future[1]
  IN [history |-> SetRecord(h, sel,
                    [past   |-> Append(noteHistory.past, next),
                     future |-> SliceTail(noteHistory.future)]),
      notes   |-> updateNoteState(ns, sel,
                    [title |-> next.title, content |-> next.content],
                    now)]

\* the history map and the notes list handleRedo sets
RedoResult(ns, h, sel, now) ==
  LET note            == FindNote(ns, sel)
      noteHistory     == h[sel]
      next            == noteHistory.future[1]
      newFuture       == SliceTail(noteHistory.future)
      currentSnapshot == Snapshot(note)
  IN [history |-> SetRecord(h, sel,
                    [past   |-> Append(noteHistory.past, currentSnapshot),
                     future |-> newFuture]),
      notes   |-> updateNoteState(ns, sel,
                    [title |-> next.title, content |-> next.content],
                    now)]

\* the states a note can be moved through by undo and redo: its past, the
\* {title, content} it has now, its future
TimelineOf(ns, h, id) ==
  HistoryOf(h, id).past \o <<Snapshot(FindNote(ns, id))>> \o
  HistoryOf(h, id).future

\* n calls of handleUndo in a row all apply and leave the note at snap
RECURSIVE UndoReaches(_, _, _, _, _)
UndoReaches(ns, h, sel, n, snap) ==
  IF n = 0 THEN Snapshot(FindNote(ns, sel)) = snap
  ELSE /\ UndoApplies(ns, h, sel)
       /\ LET r == UndoResult(ns, h, sel, clock + 1)
          IN UndoReaches(r.notes, r.history, sel, n - 1, snap)

\* n calls of handleRedo in a row all apply and leave the note at snap
RECURSIVE RedoReaches(_, _, _, _, _)
RedoReaches(ns, h, sel, n, snap) ==
  IF n = 0 THEN Snapshot(FindNote(ns, sel)) = snap
  ELSE /\ RedoApplies(ns, h, sel)
       /\ LET r == RedoResult(ns, h, sel, clock + 1)
          IN RedoReaches(r.notes, r.history, sel, n - 1, snap)

\* handleUndo that touches the note (updatedAt) before its early return
handleUndoTouches ==
  /\ lastOp' = Op("undo", Target)
  /\ scen' = ScenOnUndo
  /\ AiIdle
  /\ IF UndoApplies(notes, history, selectedNoteId)
       THEN LET r == UndoResult(notes, history, selectedNoteId, clock + 1)
            IN /\ Budget
               /\ history' = r.history
               /\ notes' = r.notes
               /\ clock' = clock + 1
               /\ streak' = <<>>
               /\ mark' = MarkOn("undo")
               /\ UNCHANGED <<selectedNoteId, typingTimeoutRef, timers, nextId,
                              switchedFrom>>
       ELSE /\ Budget
            /\ notes' = updateNoteState(notes, selectedNoteId, <<>>, clock + 1)
            /\ clock' = clock + 1
            /\ mark' = <<>>
            /\ UNCHANGED <<selectedNoteId, history, typingTimeoutRef, timers,
                           nextId, streak, switchedFrom>>
  /\ UiIdle
  /\ SaveEffects

handleUndo ==
  /\ lastOp' = Op("undo", Target)
  /\ scen' = ScenOnUndo
  /\ AiIdle
  /\ IF UndoApplies(notes, history, selectedNoteId)
       THEN LET r == UndoResult(notes, history, selectedNoteId, clock + 1)
            IN /\ Budget
               /\ history' = r.history
               /\ notes' = r.notes
               /\ clock' = clock + 1
               /\ streak' = <<>>
               /\ mark' = MarkOn("undo")
               /\ UNCHANGED <<selectedNoteId, typingTimeoutRef, timers, nextId,
                              switchedFrom>>
       ELSE /\ mark' = <<>>
            /\ UNCHANGED <<prog, streak, switchedFrom>>
  /\ UiIdle
  /\ SaveEffects

handleRedo ==
  /\ lastOp' = Op("redo", Target)
  /\ scen' = ScenOnRedo
  /\ AiIdle
  /\ IF RedoApplies(notes, history, selectedNoteId)
       THEN LET r == RedoResult(notes, history, selectedNoteId, clock + 1)
            IN /\ Budget
               /\ history' = r.history
               /\ notes' = r.notes
               /\ clock' = clock + 1
               /\ streak' = <<>>
               /\ mark' = MarkOn("redo")
               /\ UNCHANGED <<selectedNoteId, typingTimeoutRef, timers, nextId,
                              switchedFrom>>
       ELSE /\ mark' = <<>>
            /\ UNCHANGED <<prog, streak, switchedFrom>>
  /\ UiIdle
  /\ SaveEffects

\* a click on a note that also drops the redo stack of the note left behind
SelectNoteClearsFuture(id) ==
  /\ id \in NoteIds(notes)
  /\ Listed(FindNote(notes, id))
  /\ selectedNoteId' = id
  /\ ResetTypingTimer(id)
  /\ lastOp' = Op(IF id # selectedNoteId THEN "focus" ELSE "select", id)
  /\ scen' = <<>>
  /\ AiIdle
  /\ streak' = IF id # selectedNoteId THEN <<>> ELSE streak
  /\ mark' = <<>>
  /\ switchedFrom' = SwitchOn(id)
  /\ history' = IF id # selectedNoteId /\ selectedNoteId \in DOMAIN history
                  THEN SetRecord(history, selectedNoteId,
                         [past   |-> PastOf(selectedNoteId),
                          future |-> <<>>])
                  ELSE history
  /\ UNCHANGED <<notes, nextId, clock>>
  /\ UiIdle
  /\ SaveEffects

\* a click on a note of the list: setSelectedNoteId(note.id)
SelectNote(id) ==
  /\ id \in NoteIds(notes)
  /\ Listed(FindNote(notes, id))
  /\ selectedNoteId' = id
  /\ ResetTypingTimer(id)
  /\ lastOp' = Op(IF id # selectedNoteId THEN "focus" ELSE "select", id)
  /\ scen' = <<>>
  /\ AiIdle
  /\ streak' = IF id # selectedNoteId THEN <<>> ELSE streak
  /\ mark' = <<>>
  /\ switchedFrom' = SwitchOn(id)
  /\ UNCHANGED <<notes, history, nextId, clock>>
  /\ UiIdle
  /\ SaveEffects

\* the tabs of the notes list: setViewFilter('all' | 'favorites')
ShowNotes(filter) ==
  /\ viewFilter' = filter
  /\ lastOp' = Op("tab", Target)
  /\ scen' = <<>>
  /\ mark' = <<>>
  /\ AiIdle
  /\ UNCHANGED <<prog, streak, switchedFrom, todos, newTodoText, nextTodoId,
                 searchQuery, sortConfig, theme, uiCount>>
  /\ SaveEffects

\* the todos tab: setViewFilter('todos'); setSelectedNoteId(null)
ShowTodos ==
  /\ selectedNoteId' = NULL
  /\ ResetTypingTimer(NULL)
  /\ lastOp' = Op(IF selectedNoteId # NULL THEN "focus" ELSE "select", NULL)
  /\ scen' = <<>>
  /\ AiIdle
  /\ streak' = IF selectedNoteId # NULL THEN <<>> ELSE streak
  /\ mark' = <<>>
  /\ switchedFrom' = SwitchOn(NULL)
  /\ UNCHANGED <<notes, history, nextId, clock>>
  /\ viewFilter' = "todos"
  /\ UNCHANGED <<todos, newTodoText, nextTodoId, searchQuery, sortConfig, theme,
                 uiCount>>
  /\ SaveEffects

\* a creation that ends the pending session of the note left behind with a
\* snapshot of it
handleCreateNoteSaves ==
  /\ nextId <= MaxIds
  /\ Budget
  /\ LET now     == clock + 1
         newNote == [id |-> nextId, title |-> NewTitle, content |-> NewContent,
                     excerpt |-> NewExcerpt, updatedAt |-> now,
                     createdAt |-> now, isFavorite |-> FALSE]
     IN /\ notes' = <<newNote>> \o notes
        /\ selectedNoteId' = newNote.id
        /\ ResetTypingTimer(newNote.id)
        /\ nextId' = nextId + 1
        /\ clock' = now
        /\ lastOp' = Op("create", newNote.id)
        /\ scen' = <<>>
        /\ AiIdle
        /\ streak' = <<>>
        /\ mark' = <<>>
        /\ switchedFrom' = SwitchOn(newNote.id)
        /\ history' = IF Pending /\ HasSelectedNote
                        THEN saveToHistory(history, selectedNote)
                        ELSE history
  /\ viewFilter' = "all"
  /\ UNCHANGED <<todos, newTodoText, nextTodoId, searchQuery, sortConfig, theme,
                 uiCount>>
  /\ SaveEffects

\* handleCreateNote, with the effect on [selectedNoteId] of its commit
handleCreateNote ==
  /\ nextId <= MaxIds
  /\ Budget
  /\ LET now     == clock + 1
         newNote == [id |-> nextId, title |-> NewTitle, content |-> NewContent,
                     excerpt |-> NewExcerpt, updatedAt |-> now,
                     createdAt |-> now, isFavorite |-> FALSE]
     IN /\ notes' = <<newNote>> \o notes
        /\ selectedNoteId' = newNote.id
        /\ ResetTypingTimer(newNote.id)
        /\ nextId' = nextId + 1
        /\ clock' = now
        /\ lastOp' = Op("create", newNote.id)
        /\ scen' = <<>>
        /\ AiIdle
        /\ streak' = <<>>
        /\ mark' = <<>>
        /\ switchedFrom' = SwitchOn(newNote.id)
        /\ UNCHANGED history
  /\ viewFilter' = "all"
  /\ UNCHANGED <<todos, newTodoText, nextTodoId, searchQuery, sortConfig, theme,
                 uiCount>>
  /\ SaveEffects

\* a deletion that does not wait for window.confirm
handleDeleteNoteUnasked(id, confirmed) ==
  /\ id \in NoteIds(notes)
  /\ mark' = <<>>
  /\ scen' = <<>>
  /\ AiIdle
  /\ IF TRUE
       THEN LET newSel == IF selectedNoteId = id THEN NULL ELSE selectedNoteId
            IN /\ notes' = FilterOut(notes, id)
               /\ selectedNoteId' = newSel
               /\ ResetTypingTimer(newSel)
               /\ history' = RemoveRecord(history, id)
               /\ lastOp' = Op(IF confirmed THEN "delete" ELSE "declined", id)
               /\ streak' = IF streak # <<>> /\ streak[1].note = id
                              THEN <<>> ELSE streak
               /\ switchedFrom' = IF switchedFrom = id THEN NULL
                                  ELSE SwitchOn(newSel)
               /\ UNCHANGED <<nextId, clock>>
       ELSE /\ lastOp' = Op("declined", id)
            /\ UNCHANGED <<prog, streak, switchedFrom>>
  /\ UiIdle
  /\ SaveEffects

\* confirmed is what window.confirm returns.  The editor's delete button
\* passes the selected note's id; the handler itself takes any id.
handleDeleteNote(id, confirmed) ==
  /\ id \in NoteIds(notes)
  /\ mark' = <<>>
  /\ scen' = <<>>
  /\ AiIdle
  /\ IF confirmed
       THEN LET newSel == IF selectedNoteId = id THEN NULL ELSE selectedNoteId
            IN /\ notes' = FilterOut(notes, id)
               /\ selectedNoteId' = newSel
               /\ ResetTypingTimer(newSel)
               /\ history' = RemoveRecord(history, id)
               /\ lastOp' = Op("delete", id)
               /\ streak' = IF streak # <<>> /\ streak[1].note = id
                              THEN <<>> ELSE streak
               /\ switchedFrom' = IF switchedFrom = id THEN NULL
                                  ELSE SwitchOn(newSel)
               /\ UNCHANGED <<nextId, clock>>
       ELSE /\ lastOp' = Op("declined", id)
            /\ UNCHANGED <<prog, streak, switchedFrom>>
  /\ UiIdle
  /\ SaveEffects

handleToggleFavorite(id) ==
  /\ id \in NoteIds(notes)
  /\ Budget
  /\ notes' = updateNoteState(notes, id,
                [isFavorite |-> ~FindNote(notes, id).isFavorite], clock + 1)
  /\ clock' = clock + 1
  /\ lastOp' = Op("favorite", id)
  /\ scen' = <<>>
  /\ AiIdle
  /\ mark' = <<>>
  /\ UNCHANGED <<selectedNoteId, history, typingTimeoutRef, timers, nextId,
                 streak, switchedFrom>>
  /\ UiIdle
  /\ SaveEffects

\* handleKeyDown's dispatch: the handler the event reaches
KeyCommand(sel, e) ==
  IF sel = NULL THEN "none"
  ELSE IF (e.metaKey \/ e.ctrlKey) /\ e.key = "z"
         THEN IF e.shiftKey THEN "redo" ELSE "undo"
  ELSE IF (e.metaKey \/ e.ctrlKey) /\ e.key = "y" THEN "redo"
  ELSE "none"

handleKeyDown(e) ==
  CASE KeyCommand(selectedNoteId, e) = "undo" -> handleUndo
    [] KeyCommand(selectedNoteId, e) = "redo" -> handleRedo
    [] OTHER -> /\ lastOp' = Op("key", Target)
                /\ UNCHANGED <<prog, aiCall, aiCount, streak, mark,
                               switchedFrom, scen>>
                /\ UiIdle
                /\ SaveEffects

\* ------------------------------------------------- AI (src/App_modified.tsx)
\* what performAIAction resolves to: response.text?.trim() || text, and text
\* itself for CUSTOM (the switch's default case)
AiResults(action, text) ==
  IF action \in {"CUSTOM_REPLACE", "CUSTOM_APPEND"} THEN {text}
  ELSE {AiText, text}

\* the updates handleAiAction passes to updateNoteState; call holds the
\* selectedNote the handler closed over
AiUpdates(call, result) ==
  CASE call.action = "GENERATE_TITLE"   -> [title |-> result]
    [] call.action = "SUMMARIZE"        ->
         [content |-> call.content \o SummarySep \o result]
    [] call.action = "CONTINUE_WRITING" ->
         [content |-> call.content \o SpaceSep \o result]
    [] call.action = "FIX_GRAMMAR"      -> [content |-> result]
    [] call.action = "CUSTOM_REPLACE"   -> [content |-> result]
    [] call.action = "CUSTOM_APPEND"    ->
         [content |-> call.content \o CustomSep \o result]

\* handleAiAction that treats the action as one more keystroke: a snapshot
\* only when no typing session is in progress, and the timer left alone
handleAiActionCoalesces(action) ==
  /\ aiCall = <<>>
  /\ lastOp' = Op("ai", Target)
  /\ mark' = <<>>
  /\ scen' = <<>>
  /\ IF ~HasSelectedNote
       THEN UNCHANGED <<prog, aiCall, aiCount, streak, switchedFrom>>
       ELSE /\ Budget
            /\ aiCount' = aiCount + 1
            /\ history' = IF IsSessionStart(typingTimeoutRef)
                            THEN saveToHistory(history, selectedNote)
                            ELSE history
            /\ aiCall' = <<[id      |-> selectedNote.id,
                            title   |-> selectedNote.title,
                            content |-> selectedNote.content,
                            action  |-> action]>>
            /\ streak' = <<>>
            /\ switchedFrom' = NULL
            /\ UNCHANGED <<notes, selectedNoteId, typingTimeoutRef, timers,
                           nextId, clock>>
  /\ UiIdle
  /\ SaveEffects

\* handleAiAction up to the await.  The AI menu button is disabled while
\* aiState.isLoading, so no action is dispatched while a call is in flight.
handleAiAction(action) ==
  /\ aiCall = <<>>
  /\ lastOp' = Op("ai", Target)
  /\ mark' = <<>>
  /\ scen' = <<>>
  /\ IF ~HasSelectedNote
       THEN UNCHANGED <<prog, aiCall, aiCount, streak, switchedFrom>>
       ELSE /\ Budget
            /\ aiCount' = aiCount + 1
            /\ history' = saveToHistory(history, selectedNote)
            /\ IF typingTimeoutRef # NULL
                 THEN /\ timers' = clearTimeout(timers, typingTimeoutRef)
                      /\ typingTimeoutRef' = NULL
                 ELSE UNCHANGED <<timers, typingTimeoutRef>>
            /\ aiCall' = <<[id      |-> selectedNote.id,
                            title   |-> selectedNote.title,
                            content |-> selectedNote.content,
                            action  |-> action]>>
            /\ streak' = <<>>
            /\ switchedFrom' = NULL
            /\ UNCHANGED <<notes, selectedNoteId, nextId, clock>>
  /\ UiIdle
  /\ SaveEffects

\* handleAiAction that saves the snapshot after the await, not before it
AiResolvesSaves ==
  /\ aiCall # <<>>
  /\ \E result \in AiResults(aiCall[1].action, aiCall[1].content) :
       LET call  == aiCall[1]
           there == call.id \in NoteIds(notes)
       IN /\ there => Budget
          /\ clock' = IF there THEN clock + 1 ELSE clock
          /\ notes' = updateNoteState(notes, call.id, AiUpdates(call, result),
                                      clock + 1)
          /\ history' = saveToHistory(history, call)
          /\ lastOp' = Op("ai-done", call.id)
  /\ aiCall' = <<>>
  /\ mark' = <<>>
  /\ scen' = <<>>
  /\ UNCHANGED <<selectedNoteId, typingTimeoutRef, timers, nextId, aiCount,
                 streak, switchedFrom>>
  /\ UiIdle
  /\ SaveEffects

\* a completion that writes the result to the note focused when it arrives
AiResolvesOnFocused ==
  /\ aiCall # <<>>
  /\ \E result \in AiResults(aiCall[1].action, aiCall[1].content) :
       LET call  == aiCall[1]
           there == call.id \in NoteIds(notes)
       IN /\ there => Budget
          /\ clock' = IF there THEN clock + 1 ELSE clock
          /\ notes' = updateNoteState(notes, selectedNoteId,
                                      AiUpdates(call, result),
                                      clock + 1)
          /\ lastOp' = Op("ai-done", call.id)
  /\ aiCall' = <<>>
  /\ mark' = <<>>
  /\ scen' = <<>>
  /\ UNCHANGED <<selectedNoteId, history, typingTimeoutRef, timers, nextId,
                 aiCount, streak, switchedFrom>>
  /\ UiIdle
  /\ SaveEffects

\* performAIAction resolves: the try block after the await, then finally.
\* Date.now() is read only for a note that is still in the list.
AiResolves ==
  /\ aiCall # <<>>
  /\ \E result \in AiResults(aiCall[1].action, aiCall[1].content) :
       LET call  == aiCall[1]
           there == call.id \in NoteIds(notes)
       IN /\ there => Budget
          /\ clock' = IF there THEN clock + 1 ELSE clock
          /\ notes' = updateNoteState(notes, call.id, AiUpdates(call, result),
                                      clock + 1)
          /\ lastOp' = Op("ai-done", call.id)
  /\ aiCall' = <<>>
  /\ mark' = <<>>
  /\ scen' = <<>>
  /\ UNCHANGED <<selectedNoteId, history, typingTimeoutRef, timers, nextId,
                 aiCount, streak, switchedFrom>>
  /\ UiIdle
  /\ SaveEffects

\* a catch block that takes the pre-call snapshot back off the note's past
AiRejectsRollsBack ==
  /\ aiCall # <<>>
  /\ aiCall' = <<>>
  /\ lastOp' = Op("ai-fail", aiCall[1].id)
  /\ mark' = <<>>
  /\ scen' = <<>>
  /\ history' = IF PastOf(aiCall[1].id) # <<>>
                  THEN SetRecord(history, aiCall[1].id,
                         [past   |-> SliceInit(PastOf(aiCall[1].id)),
                          future |-> FutureOf(aiCall[1].id)])
                  ELSE history
  /\ UNCHANGED <<notes, selectedNoteId, typingTimeoutRef, timers, nextId,
                 clock, aiCount, streak, switchedFrom>>
  /\ UiIdle
  /\ SaveEffects

\* performAIAction rejects (API error or missing API key): catch, then finally
AiRejects ==
  /\ aiCall # <<>>
  /\ aiCall' = <<>>
  /\ lastOp' = Op("ai-fail", aiCall[1].id)
  /\ mark' = <<>>
  /\ scen' = <<>>
  /\ UNCHANGED <<prog, aiCount, streak, switchedFrom>>
  /\ UiIdle
  /\ SaveEffects

\* n.createdAt || n.updatedAt || Date.now() takes the next operand when a
\* number is 0.  Model time t stands for a positive number of milliseconds,
\* t after the first mount.
Falsy(t) == t < 0

\* the load effect's patched list: createdAt backfilled
Patched(ns, now) ==
  [i \in DOMAIN ns |->
     [ns[i] EXCEPT !.createdAt =
        IF ~Falsy(ns[i].createdAt) THEN ns[i].createdAt
        ELSE IF ~Falsy(ns[i].updatedAt) THEN ns[i].updatedAt
        ELSE now]]

\* a restart that finds the history map where the old page left it
ReloadKeepsHistory ==
  /\ notes' = Patched(storage.notes, clock)
  /\ selectedNoteId' = NULL
  /\ todos' = storage.todos
  /\ theme' = storage.theme
  /\ history' = history
  /\ typingTimeoutRef' = NULL
  /\ timers' = {}
  /\ aiCall' = <<>>
  /\ newTodoText' = <<>>
  /\ viewFilter' = "all"
  /\ searchQuery' = <<>>
  /\ sortConfig' = [key |-> "updatedAt", direction |-> "desc"]
  /\ lastOp' = Op("reload", Target)
  /\ streak' = <<>>
  /\ mark' = <<>>
  /\ scen' = <<>>
  /\ switchedFrom' = NULL
  /\ UNCHANGED <<nextId, clock, nextTodoId, aiCount, uiCount>>
  /\ SaveEffects

\* The page is loaded again: every useState and useRef starts from its
\* initial value, pending timers and the call in flight are gone with the
\* old page, and the load effects read localStorage.  JSON.parse of what
\* JSON.stringify wrote gives the same list: the fields are strings, finite
\* numbers and booleans.  The three items are present from the first mount
\* on and no handler removes them, so the branches for a missing item (the
\* welcome note, the system colour scheme) are not taken again.
Reload ==
  /\ notes' = Patched(storage.notes, clock)
  /\ selectedNoteId' = NULL
  /\ todos' = storage.todos
  /\ theme' = storage.theme
  /\ history' = <<>>
  /\ typingTimeoutRef' = NULL
  /\ timers' = {}
  /\ aiCall' = <<>>
  /\ newTodoText' = <<>>
  /\ viewFilter' = "all"
  /\ searchQuery' = <<>>
  /\ sortConfig' = [key |-> "updatedAt", direction |-> "desc"]
  /\ lastOp' = Op("reload", Target)
  /\ streak' = <<>>
  /\ mark' = <<>>
  /\ scen' = <<>>
  /\ switchedFrom' = NULL
  /\ UNCHANGED <<nextId, clock, nextTodoId, aiCount, uiCount>>
  /\ SaveEffects

\* what no handler outside the notes core touches, and what every handler
\* outside the AI path leaves: the common part of the view and todo handlers
UiStep(name) ==
  /\ lastOp' = Op(name, Target)
  /\ scen' = <<>>
  /\ mark' = <<>>
  /\ AiIdle
  /\ UNCHANGED <<notes, selectedNoteId, history, typingTimeoutRef, timers,
                 nextId, streak, switchedFrom>>

\* the sort menu, rendered in the notes views: setSortConfig({key, direction})
handleSortChange(cfg) ==
  /\ viewFilter # "todos"
  /\ Budget
  /\ sortConfig' = cfg
  /\ uiCount' = uiCount + 1
  /\ UiStep("sort")
  /\ UNCHANGED <<clock, todos, newTodoText, nextTodoId, viewFilter,
                 searchQuery, theme>>
  /\ SaveEffects

\* the search box: setSearchQuery(e.target.value)
setSearchQuery(q) ==
  /\ Budget
  /\ searchQuery' = q
  /\ uiCount' = uiCount + 1
  /\ UiStep("search")
  /\ UNCHANGED <<clock, todos, newTodoText, nextTodoId, viewFilter,
                 sortConfig, theme>>
  /\ SaveEffects

\* setTheme(prev => prev === 'light' ? 'dark' : 'light')
toggleTheme ==
  /\ Budget
  /\ theme' = IF theme = "light" THEN "dark" ELSE "light"
  /\ uiCount' = uiCount + 1
  /\ UiStep("theme")
  /\ UNCHANGED <<clock, todos, newTodoText, nextTodoId, viewFilter,
                 searchQuery, sortConfig>>
  /\ SaveEffects

\* the characters handleExportAllTxt replaces in a file name: \ / : * ? " < > |
InvalidChars == {"\\", "/", ":", "*", "?", "\"", "<", ">", "|"}

Untitled == <<"u">>            \* '未命名', abbreviated
TxtExt   == <<".txt">>         \* '.txt'

\* (note.title || '未命名').replace(/[\\/:*?"<>|]/g, '_') + '.txt'
FileName(title) ==
  LET t == IF title = <<>> THEN Untitled ELSE title
  IN [i \in DOMAIN t |-> IF t[i] \in InvalidChars THEN "_" ELSE t[i]]
     \o TxtExt

\* JSZip's zip.file(name, data): adds the entry, or replaces the data of the
\* entry that has this name
ZipFile(zip, name, data) ==
  [k \in DOMAIN zip \cup {name} |-> IF k = name THEN data ELSE zip[k]]

\* notes.forEach(note => zip.file(filename, note.content)) on a new JSZip()
RECURSIVE ZipNotes(_, _)
ZipNotes(zip, ns) ==
  IF ns = <<>> THEN zip
  ELSE ZipNotes(ZipFile(zip, FileName(Head(ns).title), Head(ns).content),
                Tail(ns))

\* the entries of the archive handleExportAllTxt offers for download
ExportAllTxt(ns) == ZipNotes(<<>>, ns)

\* handleExportSingleTxt / handleExportSinglePdf: a download of the focused
\* note; no state is set
handleExportSingleTxt ==
  /\ HasSelectedNote
  /\ viewFilter # "todos"
  /\ UiStep("export")
  /\ UNCHANGED <<clock>>
  /\ UiIdle
  /\ SaveEffects

\* handleExportAllTxt / handleExportAllPdf: a download of all notes; the
\* only state set is the menu's visibility
handleExportAllTxt ==
  /\ viewFilter # "todos"
  /\ UiStep("exportAll")
  /\ UNCHANGED <<clock>>
  /\ UiIdle
  /\ SaveEffects

\* the todo input: setNewTodoText(e.target.value)
setNewTodoText(text) ==
  /\ viewFilter = "todos"
  /\ newTodoText' = text
  /\ UiStep("todoInput")
  /\ UNCHANGED <<clock, todos, nextTodoId, viewFilter, searchQuery,
                 sortConfig, theme, uiCount>>
  /\ SaveEffects

\* a todo handler that also forgets the undo stacks
handleAddTodoDropsHistory ==
  /\ viewFilter = "todos"
  /\ Trim(newTodoText) # <<>>
  /\ nextTodoId <= MaxTodos
  /\ Budget
  /\ todos' = <<[id        |-> nextTodoId,
                  text      |-> Trim(newTodoText),
                  completed |-> FALSE,
                  createdAt |-> clock + 1,
                  updatedAt |-> clock + 1]>> \o todos
  /\ newTodoText' = <<>>
  /\ nextTodoId' = nextTodoId + 1
  /\ clock' = clock + 1
  /\ history' = <<>>
  /\ lastOp' = Op("addTodo", Target)
  /\ scen' = <<>>
  /\ mark' = <<>>
  /\ AiIdle
  /\ UNCHANGED <<notes, selectedNoteId, typingTimeoutRef, timers, nextId,
                 streak, switchedFrom>>
  /\ UNCHANGED <<viewFilter, searchQuery, sortConfig, theme, uiCount>>
  /\ SaveEffects

\* handleAddTodo that takes the input as it is
handleAddTodoUntrimmed ==
  /\ viewFilter = "todos"
  /\ UiStep("addTodo")
  /\ IF newTodoText = <<>>
       THEN UNCHANGED <<clock, todos, newTodoText, nextTodoId>>
       ELSE /\ nextTodoId <= MaxTodos
            /\ Budget
            /\ todos' = <<[id        |-> nextTodoId,
                            text      |-> newTodoText,
                            completed |-> FALSE,
                            createdAt |-> clock + 1,
                            updatedAt |-> clock + 1]>> \o todos
            /\ newTodoText' = <<>>
            /\ nextTodoId' = nextTodoId + 1
            /\ clock' = clock + 1
  /\ UNCHANGED <<viewFilter, searchQuery, sortConfig, theme, uiCount>>
  /\ SaveEffects

\* handleAddTodo: a blank input returns; else the new todo is put first and
\* the input is cleared
handleAddTodo ==
  /\ viewFilter = "todos"
  /\ UiStep("addTodo")
  /\ IF Trim(newTodoText) = <<>>
       THEN UNCHANGED <<clock, todos, newTodoText, nextTodoId>>
       ELSE /\ nextTodoId <= MaxTodos
            /\ Budget
            /\ todos' = <<[id        |-> nextTodoId,
                            text      |-> Trim(newTodoText),
                            completed |-> FALSE,
                            createdAt |-> clock + 1,
                            updatedAt |-> clock + 1]>> \o todos
            /\ newTodoText' = <<>>
            /\ nextTodoId' = nextTodoId + 1
            /\ clock' = clock + 1
  /\ UNCHANGED <<viewFilter, searchQuery, sortConfig, theme, uiCount>>
  /\ SaveEffects

\* handleToggleTodo(id), from the checkbox of a listed todo
handleToggleTodo(id) ==
  /\ id \in TodoIds(todos)
  /\ ListedTodo(FindTodo(todos, id))
  /\ Budget
  /\ todos' = [i \in DOMAIN todos |->
                 IF todos[i].id = id
                   THEN [todos[i] EXCEPT !.completed = ~@,
                                         !.updatedAt = clock + 1]
                   ELSE todos[i]]
  /\ clock' = clock + 1
  /\ UiStep("toggleTodo")
  /\ UNCHANGED <<newTodoText, nextTodoId, viewFilter, searchQuery,
                 sortConfig, theme, uiCount>>
  /\ SaveEffects

\* handleDeleteTodo(id), from the delete button of a listed todo
handleDeleteTodo(id) ==
  /\ id \in TodoIds(todos)
  /\ ListedTodo(FindTodo(todos, id))
  /\ todos' = SelectSeq(todos, LAMBDA t : t.id # id)
  /\ UiStep("deleteTodo")
  /\ UNCHANGED <<clock, newTodoText, nextTodoId, viewFilter, searchQuery,
                 sortConfig, theme, uiCount>>
  /\ SaveEffects

\* a confirmed clearing that empties the list
handleClearCompletedTodosAll(confirmed) ==
  /\ viewFilter = "todos"
  /\ \E i \in DOMAIN todos : todos[i].completed
  /\ todos' = IF confirmed
                THEN <<>>
                ELSE todos
  /\ UiStep(IF confirmed THEN "clearTodos" ELSE "clearDeclined")
  /\ UNCHANGED <<clock, newTodoText, nextTodoId, viewFilter, searchQuery,
                 sortConfig, theme, uiCount>>
  /\ SaveEffects

\* handleClearCompletedTodos; the button is rendered while a todo is
\* completed, and window.confirm may be declined
handleClearCompletedTodos(confirmed) ==
  /\ viewFilter = "todos"
  /\ \E i \in DOMAIN todos : todos[i].completed
  /\ todos' = IF confirmed
                THEN SelectSeq(todos, LAMBDA t : ~t.completed)
                ELSE todos
  /\ UiStep(IF confirmed THEN "clearTodos" ELSE "clearDeclined")
  /\ UNCHANGED <<clock, newTodoText, nextTodoId, viewFilter, searchQuery,
                 sortConfig, theme, uiCount>>
  /\ SaveEffects

Next ==
  \/ \E value \in Values : handleTextChange("content", value)
  \/ \E value \in Titles : handleTextChange("title", value)
  \/ TimerFires
  \/ handleUndo
  \/ handleRedo
  \/ \E id \in 1..MaxIds : SelectNote(id)
  \/ ShowTodos
  \/ ShowNotes("all")
  \/ handleCreateNote
  \/ \E id \in 1..MaxIds, confirmed \in BOOLEAN : handleDeleteNote(id, confirmed)
  \/ \E id \in 1..MaxIds : handleToggleFavorite(id)

Spec == Init /\ [][Next]_vars

\* Spec where a callback scheduled with setTimeout is run in the end, as
\* the event loop does once its delay has passed
SpecLive == Init /\ [][Next]_vars /\ WF_vars(TimerFires)

\* the handlers that write notes or history, with the title as the one
\* field edited and the tabs and handleCreateNote as the focus changes, and
\* the view, export and todo handlers
NextUi ==
  \/ \E value \in Titles : handleTextChange("title", value)
  \/ handleUndo
  \/ handleRedo
  \/ ShowTodos
  \/ \E filter \in ViewFilters \ {"todos"} : ShowNotes(filter)
  \/ handleCreateNote
  \/ \E id \in 1..MaxIds : handleDeleteNote(id, TRUE)
  \/ \E id \in 1..MaxIds : handleToggleFavorite(id)
  \/ \E cfg \in SortConfigs : handleSortChange(cfg)
  \/ \E q \in Queries : setSearchQuery(q)
  \/ toggleTheme
  \/ handleExportSingleTxt
  \/ handleExportAllTxt
  \/ setNewTodoText(<<" ", "t">>)
  \/ handleAddTodo
  \/ \E id \in 1..MaxTodos : handleToggleTodo(id)
  \/ \E id \in 1..MaxTodos : handleDeleteTodo(id)
  \/ \E confirmed \in BOOLEAN : handleClearCompletedTodos(confirmed)

SpecUi == Init /\ [][NextUi]_vars

\* the todos view: its handlers, the search box, the tabs and page reloads
NextTodos ==
  \/ ShowTodos
  \/ ShowNotes("all")
  \/ \E q \in Queries : setSearchQuery(q)
  \/ \E text \in TodoInputs : setNewTodoText(text)
  \/ handleAddTodo
  \/ \E id \in 1..MaxTodos : handleToggleTodo(id)
  \/ \E id \in 1..MaxTodos : handleDeleteTodo(id)
  \/ \E confirmed \in BOOLEAN : handleClearCompletedTodos(confirmed)
  \/ Reload

SpecTodos == Init /\ [][NextTodos]_vars

\* the notes handlers of Spec with restarts of the application
NextStore ==
  \/ \E value \in Values : handleTextChange("content", value)
  \/ \E value \in Titles : handleTextChange("title", value)
  \/ TimerFires
  \/ handleUndo
  \/ handleRedo
  \/ \E id \in 1..MaxIds : SelectNote(id)
  \/ handleCreateNote
  \/ \E id \in 1..MaxIds, confirmed \in BOOLEAN : handleDeleteNote(id, confirmed)
  \/ Reload

SpecStore == Init /\ [][NextStore]_vars

\* Spec with the keyboard shortcuts, a second way into handleUndo/handleRedo
NextKeys ==
  \/ Next
  \/ \E e \in KeyEvents : handleKeyDown(e)

SpecKeys == Init /\ [][NextKeys]_vars

\* src/App_modified.tsx: no todos tab, the AI actions
NextAI ==
  \/ \E key \in Keys, value \in ValuesAI : handleTextChange(key, value)
  \/ TimerFires
  \/ handleUndo
  \/ handleRedo
  \/ \E id \in 1..MaxIds : SelectNote(id)
  \/ handleCreateNote
  \/ \E id \in 1..MaxIds, confirmed \in BOOLEAN : handleDeleteNote(id, confirmed)
  \/ \E action \in AiActions : handleAiAction(action)
  \/ AiResolves
  \/ AiRejects

SpecAI == Init /\ [][NextAI]_vars

\* ------------------------------------------------------------------ claims

\* C1 (session coalescing): in a run of edits to the focused note that began
\* with no timer pending and in which the timer has not fired between two
\* edits, exactly one snapshot has been appended to the note's past,
\* however many edits the run has.
C1_Coalescing ==
  streak # <<>> /\ Len(streak[1].pre) = 1 =>
    /\ streak[1].note \in DOMAIN history
    /\ Len(PastOf(streak[1].note)) = streak[1].base + 1

\* a run of two or more edits, the last one made while the timer was pending
C1_Witness ==
  /\ streak # <<>>
  /\ streak[1].n = 2
  /\ Len(streak[1].pre) = 1
  /\ lastOp.op = "edit"
  /\ lastOp.pending

\* C2 (session splitting): when the timer fired between two edits of a run,
\* each of the two edits pushed a snapshot: the entries appended to past
\* since the run began are the title/content the note had just before the
\* first edit and just before each edit that followed a firing, in order.
C2_Splitting ==
  streak # <<>> /\ Len(streak[1].pre) >= 2 =>
    LET past == PastOf(streak[1].note)
    IN /\ Len(past) = streak[1].base + Len(streak[1].pre)
       /\ SubSeq(past, streak[1].base + 1, Len(past)) = streak[1].pre

\* two edits with a firing of the timer between them
C2_Witness ==
  /\ streak # <<>>
  /\ Len(streak[1].pre) = 2
  /\ streak[1].pre[1] # streak[1].pre[2]
  /\ lastOp.op = "edit"

\* C3 (undo/redo flush the session): after handleUndo or handleRedo has run,
\* no typing timer is pending.
C3_UndoRedoFlush ==
  lastOp.op \in {"undo", "redo"} => typingTimeoutRef = NULL /\ timers = {}

\* C4 (an edit clears future): right after a title/content edit on a note,
\* that note's future is empty and canRedo is false.
C4_EditClearsFuture ==
  lastOp.op = "edit" /\ lastOp.note # NULL =>
    Len(FutureOf(lastOp.note)) = 0 /\ ~canRedo

\* C5 (session-start push): an edit made while no timer is pending appends
\* the pre-edit {title, content} of the note at the end of its past, leaves
\* the earlier entries as they were and empties its future: (p, f) becomes
\* (p + 1, 0).
C5_SessionStartPush ==
  [][ lastOp'.op = "edit" /\ lastOp'.note # NULL /\ ~lastOp'.pending =>
        LET d == lastOp'.note
        IN /\ d \in DOMAIN history'
           /\ history'[d].past = PastOf(d) \o <<Snapshot(FindNote(notes, d))>>
           /\ Len(history'[d].past) = lastOp'.p + 1
           /\ history'[d].future = <<>> ]_vars

\* a session-start push on a note whose future an undo had left non-empty
C5_Witness ==
  /\ lastOp.op = "edit"
  /\ lastOp.note # NULL
  /\ ~lastOp.pending
  /\ lastOp.p > 0
  /\ lastOp.f > 0

\* C6 (undo): handleUndo on a note with non-empty past removes the last
\* entry of past, puts the note's current {title, content} in front of
\* future, whose entries keep their order, and sets the note's title and
\* content to the removed entry: (p, f) becomes (p - 1, f + 1).
C6_Undo ==
  [][ lastOp'.op = "undo" /\ lastOp'.note # NULL /\ lastOp'.p > 0 =>
        LET d        == lastOp'.note
            restored == PastOf(d)[Len(PastOf(d))]
        IN /\ history'[d].past = SubSeq(PastOf(d), 1, Len(PastOf(d)) - 1)
           /\ history'[d].future = <<Snapshot(FindNote(notes, d))>> \o FutureOf(d)
           /\ Snapshot(FindNote(notes', d)) = restored
           /\ Len(history'[d].past) = lastOp'.p - 1
           /\ Len(history'[d].future) = lastOp'.f + 1 ]_vars

\* an undo on a note with entries in both stacks
C6_Witness ==
  /\ lastOp.op = "undo"
  /\ lastOp.note # NULL
  /\ lastOp.p > 0
  /\ lastOp.f > 0

\* C7 (redo): handleRedo on a note with non-empty future removes the first
\* entry of future, appends the note's current {title, content} at the end
\* of past, and sets the note's title and content to the removed entry:
\* (p, f) becomes (p + 1, f - 1).
C7_Redo ==
  [][ lastOp'.op = "redo" /\ lastOp'.note # NULL /\ lastOp'.f > 0 =>
        LET d        == lastOp'.note
            restored == FutureOf(d)[1]
        IN /\ history'[d].future = SubSeq(FutureOf(d), 2, Len(FutureOf(d)))
           /\ history'[d].past = PastOf(d) \o <<Snapshot(FindNote(notes, d))>>
           /\ Snapshot(FindNote(notes', d)) = restored
           /\ Len(history'[d].past) = lastOp'.p + 1
           /\ Len(history'[d].future) = lastOp'.f - 1 ]_vars

\* a redo on a note with entries in both stacks
C7_Witness ==
  /\ lastOp.op = "redo"
  /\ lastOp.note # NULL
  /\ lastOp.p > 0
  /\ lastOp.f > 0

\* C8 (undo/redo are inverses): after an undo immediately followed by a
\* redo, and after a redo immediately followed by an undo, the note's
\* title, content, past and future are what they were before the pair.
C8_Inverse ==
  mark # <<>> /\ mark[1].stage = 2 =>
    LET m == mark[1]
    IN /\ FindNote(notes, m.note).title = m.title
       /\ FindNote(notes, m.note).content = m.content
       /\ PastOf(m.note) = m.past
       /\ FutureOf(m.note) = m.future

\* a redo followed by an undo has run on a note
C8_Witness ==
  /\ mark # <<>>
  /\ mark[1].stage = 2
  /\ mark[1].kind = "redo"
  /\ lastOp.op = "undo"

\* C9 (idle no-ops): handleUndo on a note with empty past or no record, and
\* handleRedo on a note with empty future or no record, leave the notes
\* (title, content, updatedAt), both stacks, the keys of the history map,
\* the selection and the timer unchanged.
C9_IdleNoOps ==
  [][ \/ lastOp'.op = "undo" /\ lastOp'.p = 0
      \/ lastOp'.op = "redo" /\ lastOp'.f = 0
      => UNCHANGED <<notes, history, selectedNoteId, typingTimeoutRef, timers>>
    ]_vars

\* an undo on a selected note that has a record with an empty past
C9_Witness ==
  /\ lastOp.op = "undo"
  /\ lastOp.note # NULL
  /\ lastOp.p = 0
  /\ lastOp.note \in DOMAIN history
  /\ FutureOf(lastOp.note) # <<>>

\* C10 (focus-switch isolation): after focus moved from note A, whose typing
\* timer was pending, to note B, no timer is pending; B's first edit pushes
\* B's pre-edit snapshot onto B's past and leaves A's record alone; and the
\* record of a note that is not focused never changes while the note exists.
C10_FocusSwitch ==
  /\ [](switchedFrom # NULL => typingTimeoutRef = NULL /\ timers = {})
  /\ [][ lastOp'.op = "edit" /\ lastOp'.switched =>
           LET a == switchedFrom
               b == selectedNoteId
           IN /\ b \in DOMAIN history'
              /\ history'[b].past = PastOf(b) \o <<Snapshot(FindNote(notes, b))>>
              /\ a \in DOMAIN history' /\ history'[a] = history[a] ]_vars
  /\ [][ \A id \in NoteIds(notes) \cap NoteIds(notes') :
           id # selectedNoteId =>
             /\ (id \in DOMAIN history') = (id \in DOMAIN history)
             /\ HistoryOf(history', id) = HistoryOf(history, id) ]_vars

\* B's first edit after the switch cut A's session
C10_Witness ==
  /\ lastOp.op = "edit"
  /\ lastOp.switched
  /\ lastOp.note = selectedNoteId
  /\ \E a \in DOMAIN history : a # selectedNoteId /\ history[a].past # <<>>

\* C11 (a focus change only drops the timer): selecting another note,
\* creating a note and switching to the todos view cancel the pending timer
\* and leave the history map as it was: every note's past and future,
\* those of the note that was focused included, are unchanged, so what
\* canUndo and canRedo say of a note is the same when it is focused again.
C11_FocusKeepsHistory ==
  [][ lastOp'.op \in {"focus", "create"} =>
        /\ typingTimeoutRef' = NULL
        /\ timers' = {}
        /\ history' = history
        /\ \A i \in DOMAIN notes :
             \E j \in DOMAIN notes' : Snapshot(notes'[j]) = Snapshot(notes[i])
      ]_vars

\* focus left a note in mid-session that has entries in its past
C11_Witness ==
  /\ lastOp.op = "focus"
  /\ lastOp.pending
  /\ switchedFrom # NULL
  /\ PastOf(switchedFrom) # <<>>
  /\ typingTimeoutRef = NULL

\* C12 (history purge): right after a confirmed handleDeleteNote(id) the
\* note is gone and not selected, and the history map has no record for id,
\* so neither an undo nor a redo is available for id; this holds as well
\* when id had no record before the deletion.
C12_HistoryPurge ==
  lastOp.op = "delete" =>
    /\ lastOp.note \notin NoteIds(notes)
    /\ lastOp.note \notin DOMAIN history
    /\ Len(PastOf(lastOp.note)) = 0
    /\ Len(FutureOf(lastOp.note)) = 0
    /\ selectedNoteId # lastOp.note

\* a note with entries in both stacks has been deleted
C12_Witness ==
  /\ lastOp.op = "delete"
  /\ lastOp.p > 0
  /\ lastOp.f > 0

\* C13 (no dangling history): in every reachable state every key of the
\* history map is the id of a note of the notes list, whatever the
\* interleaving of edits, undo, redo, focus changes, deletions and AI
\* dispatches and completions.
C13_NoDanglingHistory ==
  DOMAIN history \subseteq NoteIds(notes)

\* an AI call completed after its note, which had a record, was deleted,
\* while another note has a record
C13_Witness ==
  /\ lastOp.op = "ai-done"
  /\ lastOp.note \notin NoteIds(notes)
  /\ DOMAIN history # {}

\* C14 (availability predicates): in every state canUndo is true exactly
\* when a note is selected and its past is non-empty, and canRedo exactly
\* when a note is selected and its future is non-empty; and handleUndo
\* (handleRedo) changes the notes or the history exactly when canUndo
\* (canRedo) is true.
C14_Availability ==
  /\ [](canUndo <=> HasSelectedNote /\ Len(PastOf(selectedNoteId)) > 0)
  /\ [](canRedo <=> HasSelectedNote /\ Len(FutureOf(selectedNoteId)) > 0)
  /\ [][ lastOp'.op = "undo" =>
           (canUndo <=> <<notes, history>>' # <<notes, history>>) ]_vars
  /\ [][ lastOp'.op = "redo" =>
           (canRedo <=> <<notes, history>>' # <<notes, history>>) ]_vars

\* an undo has emptied the past of the selected note, which has a record
C14_Witness ==
  /\ lastOp.op = "undo"
  /\ lastOp.p = 1
  /\ HasSelectedNote
  /\ selectedNoteId \in DOMAIN history
  /\ ~canUndo
  /\ canRedo

\* C15 (undo restores the pre-session state): after a typing session of one
\* or more edits to a note, begun with no timer pending when the note's
\* title/content was S0, an undo made with no other undo or redo in between
\* sets the note's title and content to S0, not to the state some keystroke
\* of the session left.
C15_UndoRestoresPreSession ==
  [][ lastOp'.op = "undo" /\ lastOp'.run >= 1 /\ Len(streak[1].pre) = 1 =>
        /\ lastOp'.note = streak[1].note
        /\ Snapshot(FindNote(notes', streak[1].note)) = streak[1].pre[1]
      ]_vars

\* an undo after a session of two edits that changed the note
C15_Witness ==
  /\ lastOp.op = "undo"
  /\ lastOp.run = 2
  /\ lastOp.note # NULL
  /\ FutureOf(lastOp.note) # <<>>
  /\ FutureOf(lastOp.note)[1] # Snapshot(FindNote(notes, lastOp.note))

\* C16 (reference scenario): on a note {T, C} with empty history, after the
\* content edit to C1 past = [{T, C}] and future = []; after the content
\* edit to C2 made before the timer fired past and future are the same and
\* the content is C2; after the undo the content is C, past = [] and
\* future = [{T, C2}]; after the redo the content is C2, past = [{T, C}]
\* and future = [].
C16_ReferenceScenario ==
  scen # <<>> =>
    LET s    == scen[1]
        note == FindNote(notes, s.note)
        TC   == [title |-> s.t, content |-> s.c]
        TC2  == [title |-> s.t, content |-> s.c2]
    IN /\ s.note \in NoteIds(notes)
       /\ s.note \in DOMAIN history
       /\ note.title = s.t
       /\ s.stage = 1 => /\ note.content = s.c1
                         /\ history[s.note] = [past |-> <<TC>>, future |-> <<>>]
       /\ s.stage = 2 => /\ note.content = s.c2
                         /\ history[s.note] = [past |-> <<TC>>, future |-> <<>>]
       /\ s.stage = 3 => /\ note.content = s.c
                         /\ history[s.note] = [past |-> <<>>, future |-> <<TC2>>]
       /\ s.stage = 4 => /\ note.content = s.c2
                         /\ history[s.note] = [past |-> <<TC>>, future |-> <<>>]

\* the scenario has run to its end with three different contents
C16_Witness ==
  /\ scen # <<>>
  /\ scen[1].stage = 4
  /\ scen[1].c # scen[1].c1
  /\ scen[1].c1 # scen[1].c2
  /\ scen[1].c # scen[1].c2
  /\ lastOp.op = "redo"

\* C17 (one session, on the focused note): in every state at most one
\* timer callback is scheduled, and if the typing timer is pending then a
\* note is selected and the pending timer is the one an edit to that note
\* started.
C17_SessionOnFocusedNote ==
  /\ Cardinality(timers) <= 1
  /\ \A t \in timers : t.handle = typingTimeoutRef
  /\ typingTimeoutRef # NULL =>
       /\ HasSelectedNote
       /\ \E t \in timers : t.handle = typingTimeoutRef /\ t.note = selectedNoteId

\* the timer is pending on the second note after an edit that re-armed it,
\* while the first note exists too
C17_Witness ==
  /\ typingTimeoutRef # NULL
  /\ selectedNoteId = 2
  /\ 1 \in NoteIds(notes)
  /\ lastOp.op = "edit"
  /\ lastOp.pending

\* C18 (keyboard shortcuts): with a note selected, a keydown of Ctrl or Meta
\* with the Z key and no Shift runs handleUndo, and a keydown of Ctrl or
\* Meta with Shift and the Z key, or with the Y key and no Shift, runs
\* handleRedo; with no note selected no keydown runs either.
C18_Shortcuts ==
  [][ \A e \in KeyEvents :
        handleKeyDown(e) =>
          LET mod == e.metaKey \/ e.ctrlKey
          IN /\ selectedNoteId # NULL /\ mod /\ e.code = "KeyZ" /\ ~e.shiftKey
                  => lastOp'.op = "undo"
             /\ selectedNoteId # NULL /\ mod /\ e.code = "KeyZ" /\ e.shiftKey
                  => lastOp'.op = "redo"
             /\ selectedNoteId # NULL /\ mod /\ e.code = "KeyY" /\ ~e.shiftKey
                  => lastOp'.op = "redo"
             /\ selectedNoteId = NULL => lastOp'.op \notin {"undo", "redo"}
      ]_vars

\* C19 (an AI action is a session boundary): handleAiAction on the selected
\* note appends the note's pre-action {title, content} to its past, empties
\* its future and leaves no timer pending, whether or not a typing session
\* was in progress, and does so in the step that makes the call, the note
\* itself not yet changed; an edit to the note that comes next pushes a
\* snapshot of its own.
C19_AiSessionBoundary ==
  /\ [][ lastOp'.op = "ai" /\ lastOp'.note # NULL =>
           LET d == lastOp'.note
           IN /\ d \in DOMAIN history'
              /\ history'[d].past = PastOf(d) \o <<Snapshot(FindNote(notes, d))>>
              /\ history'[d].future = <<>>
              /\ typingTimeoutRef' = NULL
              /\ timers' = {}
              /\ notes' = notes
              /\ aiCall' # <<>>
              /\ Snapshot(aiCall'[1]) = Snapshot(FindNote(notes, d)) ]_vars
  /\ [][ lastOp.op = "ai" /\ lastOp.note # NULL /\ lastOp'.op = "edit"
         /\ lastOp'.note = lastOp.note =>
           history'[lastOp.note].past =
             PastOf(lastOp.note) \o <<Snapshot(FindNote(notes, lastOp.note))>>
       ]_vars

\* an AI action was dispatched in mid-session on a note with entries in
\* both stacks
C19_Witness ==
  /\ lastOp.op = "ai"
  /\ lastOp.note # NULL
  /\ lastOp.pending
  /\ lastOp.p > 0
  /\ lastOp.f > 0
  /\ aiCall # <<>>

\* C20 (a failed AI call changes neither history nor content): the step in
\* which performAIAction rejects leaves every note's title and content and
\* every history record as they were; when it follows the dispatch directly
\* the record is the one the dispatch left: the pre-call snapshot, which is
\* the note's title and content, last in past, and future empty.
C20_FailedAiNoOp ==
  /\ [][ lastOp'.op = "ai-fail" =>
           /\ notes' = notes
           /\ history' = history
           /\ UNCHANGED <<selectedNoteId, typingTimeoutRef, timers>>
           /\ aiCall' = <<>> ]_vars
  /\ [][ lastOp.op = "ai" /\ lastOp.note # NULL /\ lastOp'.op = "ai-fail" =>
           LET d == lastOp.note
           IN /\ Len(history'[d].past) = lastOp.p + 1
              /\ history'[d].past[lastOp.p + 1] = Snapshot(FindNote(notes', d))
              /\ history'[d].future = <<>> ]_vars

\* the call failed on a note that still exists and had entries in its past
\* before the dispatch
C20_Witness ==
  /\ lastOp.op = "ai-fail"
  /\ lastOp.note \in NoteIds(notes)
  /\ lastOp.p > 1
  /\ aiCall = <<>>

\* C21 (notes persistence): once the save effect has run, the list stored
\* under mindspace_notes_v1 is the notes list, the empty list included, and
\* a reload shows exactly the notes that existed before it.
C21_NotesPersisted ==
  /\ [](storage.notes = notes)
  /\ [][ lastOp'.op = "reload" => notes' = notes ]_vars

\* C22 (history is not persisted): a restart leaves the history map empty
\* whatever it held before, and from the restart until the first edit that
\* follows it canUndo and canRedo are false whichever note is selected.
C22_HistoryNotPersisted ==
  /\ [][ lastOp'.op = "reload" => history' = <<>> /\ ~canUndo' /\ ~canRedo'
       ]_vars
  /\ [][ history = <<>> /\ history' # <<>> => lastOp'.op = "edit" ]_vars
  /\ [](history = <<>> => ~canUndo /\ ~canRedo)

\* a restart while the selected note had entries in both stacks
C22_Witness ==
  /\ lastOp.op = "reload"
  /\ lastOp.note # NULL
  /\ lastOp.p > 0
  /\ lastOp.f > 0
  /\ history = <<>>

\* C23 (what shortens future): in a step in which the future of a note
\* becomes shorter, the step is a redo on that note and future loses its
\* first entry, or a snapshot push for that note (an edit or an AI action)
\* and future becomes empty while past gains an entry, or the deletion of
\* that note; no undo, focus change, timer firing or operation on another
\* note shortens it.
C23_FutureShortenedBy ==
  [][ \A id \in DOMAIN history :
        Len(HistoryOf(history', id).future) < Len(FutureOf(id)) =>
          \/ /\ lastOp'.op = "redo"
             /\ lastOp'.note = id
             /\ HistoryOf(history', id).future = SliceTail(FutureOf(id))
          \/ /\ lastOp'.op \in {"edit", "ai"}
             /\ lastOp'.note = id
             /\ HistoryOf(history', id).future = <<>>
             /\ Len(HistoryOf(history', id).past) = Len(PastOf(id)) + 1
          \/ /\ lastOp'.op = "delete"
             /\ lastOp'.note = id
             /\ id \notin DOMAIN history'
             /\ id \notin NoteIds(notes') ]_vars

\* an edit that started a session has emptied a future an undo had filled
C23_Witness ==
  /\ lastOp.op = "edit"
  /\ lastOp.note # NULL
  /\ lastOp.f > 0
  /\ FutureOf(lastOp.note) = <<>>

\* C24 (the timer only ends the session): when the timer fires the
\* pending-timer handle becomes null and no callback stays scheduled; the
\* notes (title, content, updatedAt), the history map and the selection
\* are unchanged, so the timer pushes no snapshot.
C24_TimerOnlyEndsSession ==
  [][ lastOp'.op = "fire" =>
        /\ typingTimeoutRef # NULL
        /\ typingTimeoutRef' = NULL
        /\ timers' = {}
        /\ UNCHANGED <<notes, history, selectedNoteId, storage>> ]_vars

\* the timer fired on a note with entries in both stacks
C24_Witness ==
  /\ lastOp.op = "fire"
  /\ lastOp.pending
  /\ lastOp.p > 0
  /\ lastOp.f > 0
  /\ typingTimeoutRef = NULL

\* C25 (the session ends): a pending timer does not stay pending for ever:
\* the handle becomes null, by the timer firing unless a focus change has
\* cancelled it (a run has finitely many edits, so from some point on no
\* edit re-arms it); a null handle stays null until an edit; and the edit
\* that follows a firing starts a session: it pushes a snapshot.
C25_SessionEnds ==
  /\ (typingTimeoutRef # NULL) ~> (typingTimeoutRef = NULL)
  /\ [][ typingTimeoutRef = NULL /\ typingTimeoutRef' # NULL =>
           lastOp'.op = "edit" ]_vars
  /\ [][ lastOp.op = "fire" /\ lastOp'.op = "edit" /\ lastOp'.note # NULL =>
           Len(history'[lastOp'.note].past) = lastOp'.p + 1 ]_vars

\* the timer has fired after the edits of a session and ended it
C25_Witness ==
  /\ lastOp.op = "fire"
  /\ lastOp.pending
  /\ typingTimeoutRef = NULL
  /\ timers = {}
  /\ streak # <<>>
  /\ streak[1].n = 2
  /\ streak[1].gap

\* C26 (single live timer): in every reachable state at most one
\* quiet-interval callback is scheduled, the pending-timer handle is
\* non-null exactly when one is, and that callback is the one the handle
\* names and was scheduled for the focused note: no callback of an earlier
\* keystroke or of a note focused before is left to fire.
C26_SingleLiveTimer ==
  /\ Cardinality(timers) <= 1
  /\ (typingTimeoutRef # NULL) <=> (timers # {})
  /\ \A t \in timers :
       /\ t.handle = typingTimeoutRef
       /\ t.note = selectedNoteId

\* a second keystroke has replaced the timer of the first
C26_Witness ==
  /\ lastOp.op = "edit"
  /\ lastOp.pending
  /\ Cardinality(timers) = 1
  /\ streak # <<>>
  /\ streak[1].n = 2
  /\ ~streak[1].gap

\* C27 (only the history core writes the history map): a step changes the
\* map only if it is an edit that starts a session, an AI action, an undo,
\* a redo or a note deletion; creating a note, toggling a favourite,
\* changing sort, filter, search or theme, exporting, and every todo
\* operation leave the whole map as it was.
C27_OnlyCoreWritesHistory ==
  [][ /\ history' # history =>
           /\ lastOp'.op \in {"edit", "ai", "undo", "redo", "delete"}
           /\ lastOp'.op = "edit" => ~lastOp'.pending
      /\ lastOp'.op \in {"create", "favorite", "sort", "tab", "search",
                          "theme", "export", "exportAll", "todoInput",
                          "addTodo", "toggleTodo", "deleteTodo",
                          "clearTodos", "clearDeclined"} =>
           history' = history ]_vars

\* a todo has been added while a note has a snapshot to undo to
C27_Witness ==
  /\ lastOp.op = "addTodo"
  /\ todos # <<>>
  /\ \E id \in DOMAIN history : history[id].past # <<>>

\* C28 (per-note isolation): an edit, undo, redo or deletion applied to a
\* note leaves every other note in the list with its title and content, and
\* leaves every other note's history record (its past and its future) as it
\* was; so deleting one note keeps the records of the others.
C28_PerNoteIsolation ==
  [][ lastOp'.op \in {"edit", "undo", "redo", "delete"} =>
        \A b \in NoteIds(notes) \ {lastOp'.note} :
          /\ b \in NoteIds(notes')
          /\ Snapshot(FindNote(notes', b)) = Snapshot(FindNote(notes, b))
          /\ (b \in DOMAIN history') = (b \in DOMAIN history)
          /\ HistoryOf(history', b).past = HistoryOf(history, b).past
          /\ HistoryOf(history', b).future = HistoryOf(history, b).future
    ]_vars

\* a note has been deleted while another note has a snapshot in its past
C28_Witness ==
  /\ lastOp.op = "delete"
  /\ lastOp.note \notin NoteIds(notes)
  /\ \E b \in NoteIds(notes) :
       /\ b # lastOp.note
       /\ b \in DOMAIN history
       /\ history[b].past # <<>>

\* C29 (timeline preservation): for the focused note the sequence
\* past ++ [current {title, content}] ++ future is the same before and
\* after every undo and every redo; an undo that applies moves the current
\* position one to the left and a redo one to the right, so
\* |past| + |future| does not change; and from every state each entry of
\* the timeline is reached by repeating undo, or redo, as many times as the
\* entry is away from the current position.
C29_TimelinePreserved ==
  /\ [][ lastOp'.op \in {"undo", "redo"} /\ lastOp'.note # NULL =>
           LET id == lastOp'.note
           IN /\ TimelineOf(notes', history', id) =
                   TimelineOf(notes, history, id)
              /\ Len(HistoryOf(history', id).past) +
                   Len(HistoryOf(history', id).future) =
                   lastOp'.p + lastOp'.f
              /\ history' # history =>
                   Len(HistoryOf(history', id).past) =
                     IF lastOp'.op = "undo" THEN lastOp'.p - 1
                                            ELSE lastOp'.p + 1 ]_vars
  /\ [](HasSelectedNote =>
          LET line == TimelineOf(notes, history, selectedNoteId)
              pos  == Len(PastOf(selectedNoteId)) + 1
          IN \A k \in 1..Len(line) :
               IF k <= pos
                 THEN UndoReaches(notes, history, selectedNoteId, pos - k,
                                  line[k])
                 ELSE RedoReaches(notes, history, selectedNoteId, k - pos,
                                  line[k]))

\* an undo has been applied in the middle of a timeline of three states
C29_Witness ==
  /\ lastOp.op = "undo"
  /\ lastOp.p = 2
  /\ lastOp.note = selectedNoteId
  /\ Len(TimelineOf(notes, history, selectedNoteId)) = 3
  /\ Len(PastOf(selectedNoteId)) = 1
  /\ Len(FutureOf(selectedNoteId)) = 1

\* C30 (a session is per note, not per field): when a run of edits to a note
\* that began with no timer pending, with no firing in between, has changed
\* both the title and the content, the run has pushed one snapshot, the
\* note's title and content before the first of the edits; and an undo made
\* right after such a run gives the note back both that title and that
\* content and takes the one snapshot off past.
C30_SessionPerNote ==
  /\ [](streak # <<>> /\ Len(streak[1].pre) = 1 =>
          LET id   == streak[1].note
              note == FindNote(notes, id)
              s0   == streak[1].pre[1]
          IN id \in NoteIds(notes) /\ note.title # s0.title
                                   /\ note.content # s0.content =>
               /\ Len(PastOf(id)) = streak[1].base + 1
               /\ PastOf(id)[Len(PastOf(id))] = s0)
  /\ [][ /\ lastOp'.op = "undo"
         /\ lastOp'.run = 2
         /\ Len(streak[1].pre) = 1
         /\ selectedNote.title # streak[1].pre[1].title
         /\ selectedNote.content # streak[1].pre[1].content
         => LET now == FindNote(notes', streak[1].note)
            IN /\ now.title = streak[1].pre[1].title
               /\ now.content = streak[1].pre[1].content
               /\ Len(HistoryOf(history', streak[1].note).past) =
                    streak[1].base ]_vars

\* an undo right after a session that changed the title and the content
C30_Witness ==
  /\ lastOp.op = "undo"
  /\ lastOp.run = 2
  /\ lastOp.pending
  /\ lastOp.note = selectedNoteId
  /\ FutureOf(selectedNoteId) # <<>>
  /\ FutureOf(selectedNoteId)[1].title # selectedNote.title
  /\ FutureOf(selectedNoteId)[1].content # selectedNote.content

\* C31 (the excerpt stays derived from the content): after every step that
\* sets a note's content -- an edit that changed the content, an undo or a
\* redo that applied -- the note's excerpt is the first 100 characters of
\* its content.
C31_ExcerptDerived ==
  [][ /\ lastOp'.op \in {"edit", "undo", "redo"}
      /\ lastOp'.note # NULL
      /\ \/ lastOp'.op = "edit" /\
               FindNote(notes', lastOp'.note).content #
                 FindNote(notes, lastOp'.note).content
         \/ lastOp'.op # "edit" /\ history' # history
      => LET note == FindNote(notes', lastOp'.note)
         IN note.excerpt = Substring0(note.content, ExcerptLen) ]_vars

\* C32 (a fresh note starts at (0, 0)): after handleCreateNote the new note
\* is in front of the list and selected, it has no history record, so
\* canUndo and canRedo are false; no timer is pending and no callback is
\* left scheduled; the history map is the one from before the call, so no
\* snapshot was pushed; and the notes that existed are all still there,
\* unchanged and in their order.
C32_FreshNote ==
  [][ lastOp'.op = "create" =>
        /\ selectedNoteId' = lastOp'.note
        /\ selectedNoteId' \notin NoteIds(notes)
        /\ notes'[1].id = selectedNoteId'
        /\ Snapshot(notes'[1]) = [title |-> NewTitle, content |-> NewContent]
        /\ selectedNoteId' \notin DOMAIN history'
        /\ ~canUndo'
        /\ ~canRedo'
        /\ typingTimeoutRef' = NULL
        /\ timers' = {}
        /\ history' = history
        /\ SubSeq(notes', 2, Len(notes')) = notes ]_vars

\* a note has been created while the typing timer of another note, which
\* has a snapshot in its past, was pending
C32_Witness ==
  /\ lastOp.op = "create"
  /\ lastOp.pending
  /\ selectedNoteId = lastOp.note
  /\ Len(notes) = 2
  /\ \E id \in DOMAIN history : id # selectedNoteId /\ history[id].past # <<>>

\* C33 (deletion is confirmed and exact): a declined deletion leaves notes,
\* selection, history and the pending timer as they were; an accepted one
\* removes the note with that id and no other, keeping the others in their
\* order; the selection becomes null when the deleted note was the selected
\* one, which also ends its pending session, and is kept otherwise, and
\* then the pending timer is left as it was.
C33_DeleteExact ==
  [][ /\ lastOp'.op = "declined" =>
           UNCHANGED <<notes, selectedNoteId, history, typingTimeoutRef,
                       timers>>
      /\ lastOp'.op = "delete" =>
           LET id == lastOp'.note
           IN /\ id \in NoteIds(notes)
              /\ notes' = SelectSeq(notes, LAMBDA n : n.id # id)
              /\ Len(notes') = Len(notes) - 1
              /\ selectedNoteId' = IF selectedNoteId = id THEN NULL
                                   ELSE selectedNoteId
              /\ selectedNoteId = id =>
                   typingTimeoutRef' = NULL /\ timers' = {}
              /\ selectedNoteId # id =>
                   UNCHANGED <<typingTimeoutRef, timers>> ]_vars

\* a note other than the selected one has been deleted while the selected
\* note's typing timer was pending
C33_Witness ==
  /\ lastOp.op = "delete"
  /\ lastOp.pending
  /\ selectedNoteId # NULL
  /\ selectedNoteId # lastOp.note
  /\ typingTimeoutRef # NULL
  /\ timers # {}

\* C34 (history depth is unbounded): no step drops entries from the front
\* of a past: in every step each record's past either stays an initial
\* segment of the new past, or loses its last entry by an undo of that
\* note, or goes with the note in a deletion; so a run of k edit sessions
\* on a note, separated by firings of the timer and without an undo, has
\* added k entries to its past.
C34_UnboundedDepth ==
  /\ [][ \A id \in DOMAIN history :
           LET old == history[id].past
               new == HistoryOf(history', id).past
           IN \/ id \in DOMAIN history' /\ IsPrefix(old, new)
              \/ /\ lastOp'.op = "undo"
                 /\ lastOp'.note = id
                 /\ new = SliceInit(old)
              \/ /\ lastOp'.op = "delete"
                 /\ lastOp'.note = id
                 /\ id \notin DOMAIN history' ]_vars
  /\ [](streak # <<>> =>
          Len(PastOf(streak[1].note)) =
            streak[1].base + Len(streak[1].pre))

\* three sessions on one note, separated by firings, have left three
\* entries in its past
C34_Witness ==
  /\ streak # <<>>
  /\ Len(streak[1].pre) = 3
  /\ streak[1].base = 0
  /\ Len(PastOf(streak[1].note)) = 3
  /\ lastOp.op = "edit"

\* C35 (an AI result goes to the note it was dispatched on): when the call
\* resolves, every note other than the one selected at dispatch is left as
\* it was, the note focused in the meantime included; the list has the
\* same notes as before and the history map is unchanged; so when the
\* originating note was deleted while the call was in flight, the list is
\* unchanged and the note has no history record afterwards.
C35_AiResultTarget ==
  [][ lastOp'.op = "ai-done" =>
        LET call == aiCall[1]
        IN /\ lastOp'.note = call.id
           /\ NoteIds(notes') = NoteIds(notes)
           /\ Len(notes') = Len(notes)
           /\ \A b \in NoteIds(notes) \ {call.id} :
                FindNote(notes', b) = FindNote(notes, b)
           /\ history' = history
           /\ call.id \notin NoteIds(notes) =>
                /\ notes' = notes
                /\ call.id \notin DOMAIN history' ]_vars

\* a result has arrived after the focus moved from the note it was asked
\* for to another note, and has changed the note it was asked for
C35_Witness ==
  /\ lastOp.op = "ai-done"
  /\ selectedNoteId # NULL
  /\ selectedNoteId # lastOp.note
  /\ lastOp.note \in NoteIds(notes)
  /\ FindNote(notes, lastOp.note).updatedAt = clock

\* C36 (no lost update across an AI call): when a result arrives right
\* after an edit made to the note the call is for, every field that edit
\* left different from what the note had at dispatch either still has the
\* edited value after the result is applied, or has it in an entry of the
\* note's past or future, from where undo or redo can bring it back.
C36_NoLostUpdate ==
  [][ /\ lastOp'.op = "ai-done"
      /\ lastOp.op = "edit"
      /\ lastOp.note = aiCall[1].id
      /\ lastOp.note \in NoteIds(notes)
      => LET call == aiCall[1]
             cur  == FindNote(notes, call.id)
             new  == FindNote(notes', call.id)
             kept == HistoryOf(history', call.id).past \o
                     HistoryOf(history', call.id).future
         IN \A f \in Keys :
              cur[f] # call[f] =>
                \/ new[f] = cur[f]
                \/ \E i \in DOMAIN kept : kept[i][f] = cur[f] ]_vars

\* C37 (export all writes one entry per note): whenever handleExportAllTxt
\* runs on a non-empty notes list, the archive it builds has as many
\* entries as there are notes, and each note's content is the data of the
\* entry named after it.
C37_ExportOnePerNote ==
  [][ lastOp'.op = "exportAll" /\ Len(notes) > 0 =>
        LET zip == ExportAllTxt(notes)
        IN /\ Cardinality(DOMAIN zip) = Len(notes)
           /\ \A i \in DOMAIN notes :
                zip[FileName(notes[i].title)] = notes[i].content ]_vars

\* C38 (adding a todo): handleAddTodo with an input that is empty or only
\* whitespace changes nothing; with any other input the new list is one
\* todo, with the trimmed input as its text and completed false, followed
\* by the todos there were, unchanged and in their order, and the input
\* field is empty afterwards.
C38_AddTodo ==
  [][ lastOp'.op = "addTodo" =>
        IF Trim(newTodoText) = <<>>
          THEN UNCHANGED <<prog, ui, storage>>
          ELSE /\ Len(todos') = Len(todos) + 1
               /\ todos'[1].text = Trim(newTodoText)
               /\ todos'[1].completed = FALSE
               /\ Tail(todos') = todos
               /\ newTodoText' = <<>> ]_vars

\* a second todo has been added in front of the first, from an input with
\* a leading space
C38_Witness ==
  /\ lastOp.op = "addTodo"
  /\ Len(todos) = 2
  /\ todos[1].text = <<"t">>
  /\ todos[1].id # todos[2].id
  /\ todos[1].createdAt > todos[2].createdAt
  /\ newTodoText = <<>>

\* C39 (clearing completed todos): after a confirmed
\* handleClearCompletedTodos the list is the todos that were not completed,
\* in their order and unchanged; after a declined one the list is the same
\* as before; and in both cases the list stored under mindspace_todos_v1 is
\* the list in memory, the empty list included.
C39_ClearCompleted ==
  [][ /\ lastOp'.op = "clearTodos" =>
           /\ todos' = SelectSeq(todos, LAMBDA t : ~t.completed)
           /\ storage'.todos = todos'
      /\ lastOp'.op = "clearDeclined" =>
           /\ todos' = todos
           /\ storage'.todos = todos' ]_vars

\* of two todos the completed one has been cleared and the other is left
C39_Witness ==
  /\ lastOp.op = "clearTodos"
  /\ nextTodoId = 3
  /\ Len(todos) = 1
  /\ ~todos[1].completed
  /\ storage.todos = todos

====
